---------------------------- MODULE Spec2Model ----------------------------
(***************************************************************************)
(* lssrv: the parsing/merge pipeline of src/src/lssrv.go.                  *)
(*                                                                         *)
(* main() runs getPartitionsInformation, parsePartitionsInformation,       *)
(* parseQueueStateFile, removeIgnoredQueues and presentInformation in      *)
(* sequence.  Byte strings are sequences of one-character strings, so that *)
(* bytes.Split, bytes.TrimRight and strconv.ParseUint are computed on the  *)
(* text as the code computes them.  The two loops (one per inventory line, *)
(* one per snapshot line) advance one iteration per step.                  *)
(***************************************************************************)
EXTENDS Integers, Sequences, FiniteSets, TLC

(***************************************************************************)
(* Bounds of the model.                                                    *)
(***************************************************************************)
\* Largest number of partition lines in a sinfo output.
MaxInvLines == 2

\* Largest number of job lines in a queue state file.
MaxQueueLines == 2

\* Largest number of entries of general.ignored_partitions.
MaxIgnored == 1

(***************************************************************************)
(* Byte-string helpers.                                                    *)
(***************************************************************************)
\* All sequences over S of length at most n.
SeqsUpTo(S, n) == UNION {[1..k -> S] : k \in 0..n}

\* strings.Join / the writer of a text: fields separated by sep.
RECURSIVE Join(_, _)
Join(parts, sep) ==
  IF parts = <<>> THEN <<>>
  ELSE IF Len(parts) = 1 THEN parts[1]
  ELSE parts[1] \o <<sep>> \o Join(Tail(parts), sep)

\* bytes.Split(s, sep) for a one-byte separator: the parts between the
\* occurrences of sep, always at least one part.  The recursion is over the
\* parts: the text before the first sep, then the split of what follows it.
RECURSIVE Split(_, _)
Split(s, sep) ==
  LET seps == {i \in 1..Len(s) : s[i] = sep}
      first == CHOOSE i \in seps : \A j \in seps : i <= j
  IN IF seps = {} THEN <<s>>
     ELSE <<SubSeq(s, 1, first - 1)>>
            \o Split(SubSeq(s, first + 1, Len(s)), sep)

\* bytes.TrimRight(s, cutset) for a one-byte cutset: drops every trailing one.
TrimRight(s, c) ==
  LET kept == {i \in 1..Len(s) : s[i] # c}
  IN IF kept = {} THEN <<>>
     ELSE SubSeq(s, 1, CHOOSE i \in kept : \A j \in kept : j <= i)

Digits == {"0", "1", "2", "3", "4", "5", "6", "7", "8", "9"}

DigitValue(c) ==
  CASE c = "0" -> 0 [] c = "1" -> 1 [] c = "2" -> 2 [] c = "3" -> 3
    [] c = "4" -> 4 [] c = "5" -> 5 [] c = "6" -> 6 [] c = "7" -> 7
    [] c = "8" -> 8 [] c = "9" -> 9

\* ParseUint with its error dropped by the caller: a string that is not a
\* number reads as 0.
ParseUintErrorIgnored(s) ==
  LET RECURSIVE value(_, _)
      value(i, acc) ==
        IF i > Len(s) THEN acc ELSE value(i + 1, acc * 10 + DigitValue(s[i]))
  IN IF s = <<>> \/ \E i \in 1..Len(s) : s[i] \notin Digits
     THEN [err |-> FALSE, value |-> 0]
     ELSE [err |-> FALSE, value |-> value(1, 0)]

\* strconv.ParseUint(s, 10, 64): an error on the empty string and on any
\* byte that is not a decimal digit (a sign included).  The numerals of the
\* model have at most six digits, far below 2^64, so the range error of
\* ParseUint and the width of uint play no part.
ParseUint(s) ==
  LET RECURSIVE value(_, _)
      value(i, acc) ==
        IF i > Len(s) THEN acc ELSE value(i + 1, acc * 10 + DigitValue(s[i]))
  IN IF s = <<>> \/ \E i \in 1..Len(s) : s[i] \notin Digits
     THEN [err |-> TRUE, value |-> 0]
     ELSE [err |-> FALSE, value |-> value(1, 0)]

(***************************************************************************)
(* Texts the environment can hand to the program.                          *)
(***************************************************************************)
\* "PARTITION|AVAIL|NODES|MAX_CPUS_PER_NODE|CPUS|CPUS(A/I/O/T)|JOB_SIZE|S:C:T|TIMELIMIT|MEMORY"
inventoryReferenceHeader ==
  <<"P", "A", "R", "T", "I", "T", "I", "O", "N", "|", "A", "V", "A", "I",
    "L", "|", "N", "O", "D", "E", "S", "|", "M", "A", "X", "_", "C", "P",
    "U", "S", "_", "P", "E", "R", "_", "N", "O", "D", "E", "|", "C", "P",
    "U", "S", "|", "C", "P", "U", "S", "(", "A", "/", "I", "/", "O", "/",
    "T", ")", "|", "J", "O", "B", "_", "S", "I", "Z", "E", "|", "S", ":",
    "C", ":", "T", "|", "T", "I", "M", "E", "L", "I", "M", "I", "T", "|",
    "M", "E", "M", "O", "R", "Y">>

\* "PARTITION|STATE|REASON"
queueReferenceHeader ==
  <<"P", "A", "R", "T", "I", "T", "I", "O", "N", "|", "S", "T", "A", "T",
    "E", "|", "R", "E", "A", "S", "O", "N">>

\* The reference header with its first delimiter replaced by a comma.
HeaderWrongDelimiter ==
  <<"P", "A", "R", "T", "I", "T", "I", "O", "N", ",", "A", "V", "A", "I",
    "L", "|", "N", "O", "D", "E", "S", "|", "M", "A", "X", "_", "C", "P",
    "U", "S", "_", "P", "E", "R", "_", "N", "O", "D", "E", "|", "C", "P",
    "U", "S", "|", "C", "P", "U", "S", "(", "A", "/", "I", "/", "O", "/",
    "T", ")", "|", "J", "O", "B", "_", "S", "I", "Z", "E", "|", "S", ":",
    "C", ":", "T", "|", "T", "I", "M", "E", "L", "I", "M", "I", "T", "|",
    "M", "E", "M", "O", "R", "Y">>

\* The reference header with its last field name replaced (sinfo %e for %m).
HeaderWrongField ==
  <<"P", "A", "R", "T", "I", "T", "I", "O", "N", "|", "A", "V", "A", "I",
    "L", "|", "N", "O", "D", "E", "S", "|", "M", "A", "X", "_", "C", "P",
    "U", "S", "_", "P", "E", "R", "_", "N", "O", "D", "E", "|", "C", "P",
    "U", "S", "|", "C", "P", "U", "S", "(", "A", "/", "I", "/", "O", "/",
    "T", ")", "|", "J", "O", "B", "_", "S", "I", "Z", "E", "|", "S", ":",
    "C", ":", "T", "|", "T", "I", "M", "E", "L", "I", "M", "I", "T", "|",
    "F", "R", "E", "E", "_", "M", "E", "M">>

\* First lines sinfo can print; the empty one is the empty output.
InventoryHeaders ==
  {inventoryReferenceHeader, HeaderWrongDelimiter, HeaderWrongField, <<>>}

\* gpu|up|4|64|64|10/40/0/50|1-4|2:16:2|1-00:00:00|128000
LineGpu ==
  <<"g", "p", "u", "|", "u", "p", "|", "4", "|", "6", "4", "|", "6", "4",
    "|", "1", "0", "/", "4", "0", "/", "0", "/", "5", "0", "|", "1", "-",
    "4", "|", "2", ":", "1", "6", ":", "2", "|", "1", "-", "0", "0", ":",
    "0", "0", ":", "0", "0", "|", "1", "2", "8", "0", "0", "0">>

\* cpu|up|2|32|32+|0/64/0/64|1-infinite|2:8:2|infinite|64000+
LineCpuBothPlus ==
  <<"c", "p", "u", "|", "u", "p", "|", "2", "|", "3", "2", "|", "3", "2",
    "+", "|", "0", "/", "6", "4", "/", "0", "/", "6", "4", "|", "1", "-",
    "i", "n", "f", "i", "n", "i", "t", "e", "|", "2", ":", "8", ":", "2",
    "|", "i", "n", "f", "i", "n", "i", "t", "e", "|", "6", "4", "0", "0",
    "0", "+">>

\* gpu|down|1|7|7|1/6/0/7|1-1|1:7:1|1:00|1000+
LineGpuMemPlus ==
  <<"g", "p", "u", "|", "d", "o", "w", "n", "|", "1", "|", "7", "|", "7",
    "|", "1", "/", "6", "/", "0", "/", "7", "|", "1", "-", "1", "|", "1",
    ":", "7", ":", "1", "|", "1", ":", "0", "0", "|", "1", "0", "0", "0",
    "+">>

\* cpu|up|1|8|8+|0/8/0/8|1-2|1:8:1|30:00|1000
LineCpuCorePlus ==
  <<"c", "p", "u", "|", "u", "p", "|", "1", "|", "8", "|", "8", "+", "|",
    "0", "/", "8", "/", "0", "/", "8", "|", "1", "-", "2", "|", "1", ":",
    "8", ":", "1", "|", "3", "0", ":", "0", "0", "|", "1", "0", "0", "0">>

\* mid|up|1|4|0|0/4/0/4|1-1|1:4:1|10:00|100
LineZeroCores ==
  <<"m", "i", "d", "|", "u", "p", "|", "1", "|", "4", "|", "0", "|", "0",
    "/", "4", "/", "0", "/", "4", "|", "1", "-", "1", "|", "1", ":", "4",
    ":", "1", "|", "1", "0", ":", "0", "0", "|", "1", "0", "0">>

\* mid|up|1|4|4|0/4/0/4|1-1|1:4:1|10:00|n/a
LineBadMemory ==
  <<"m", "i", "d", "|", "u", "p", "|", "1", "|", "4", "|", "4", "|", "0",
    "/", "4", "/", "0", "/", "4", "|", "1", "-", "1", "|", "1", ":", "4",
    ":", "1", "|", "1", "0", ":", "0", "0", "|", "n", "/", "a">>

\* mid|up|many|4|4|0/4/0/4|1-1|1:4:1|10:00|100
LineBadNodes ==
  <<"m", "i", "d", "|", "u", "p", "|", "m", "a", "n", "y", "|", "4", "|",
    "4", "|", "0", "/", "4", "/", "0", "/", "4", "|", "1", "-", "1", "|",
    "1", ":", "4", ":", "1", "|", "1", "0", ":", "0", "0", "|", "1", "0",
    "0">>

\* gpu|up
LineShort ==
  <<"g", "p", "u", "|", "u", "p">>

\* Partition lines sinfo can print after the header.
InventoryLines ==
  {LineGpu, LineCpuBothPlus, LineGpuMemPlus, LineCpuCorePlus,
   LineZeroCores, LineBadMemory, LineBadNodes, LineShort}

\* Standard output of sinfo: the header and the lines, each ended by \n.
SinfoOutputs ==
  {Join(<<h>> \o body, "\n") \o <<"\n">> :
     h \in InventoryHeaders, body \in SeqsUpTo(InventoryLines, MaxInvLines)}

\* gpu|RUNNING|None
JobGpuRunning ==
  <<"g", "p", "u", "|", "R", "U", "N", "N", "I", "N", "G", "|", "N", "o", "n", "e">>

\* cpu|PENDING|Priority
JobCpuPendingPriority ==
  <<"c", "p", "u", "|", "P", "E", "N", "D", "I", "N", "G", "|", "P", "r", "i", "o", "r", "i", "t", "y">>

\* gpu|PENDING|Resources
JobGpuPendingResources ==
  <<"g", "p", "u", "|", "P", "E", "N", "D", "I", "N", "G", "|", "R", "e", "s", "o", "u", "r", "c", "e", "s">>

\* gpu|PENDING|Priority
JobGpuPendingPriority ==
  <<"g", "p", "u", "|", "P", "E", "N", "D", "I", "N", "G", "|", "P", "r", "i", "o", "r", "i", "t", "y">>

\* gpu|COMPLETING|Resources
JobGpuCompleting ==
  <<"g", "p", "u", "|", "C", "O", "M", "P", "L", "E", "T", "I", "N", "G", "|", "R", "e", "s", "o", "u", "r", "c", "e", "s">>

\* gpu
JobShort ==
  <<"g", "p", "u">>

\* An empty line
JobEmpty == <<>>

\* Job lines the snapshot writer can print after the header.
QueueLines ==
  {JobGpuRunning, JobGpuPendingResources, JobGpuPendingPriority,
   JobCpuPendingPriority, JobGpuCompleting, JobShort, JobEmpty}

\* "PARTITION|STATE"
QueueHeaderWrong ==
  <<"P", "A", "R", "T", "I", "T", "I", "O", "N", "|", "S", "T", "A", "T",
    "E">>

QueueHeaders == {queueReferenceHeader, QueueHeaderWrong}

\* Contents of the queue state file: the header and the lines, each ended
\* by \n; the empty file is among them.
QueueStateFiles ==
  {<<>>} \cup
  {Join(<<h>> \o body, "\n") \o <<"\n">> :
     h \in QueueHeaders, body \in SeqsUpTo(QueueLines, MaxQueueLines)}

\* Names general.ignored_partitions can list: one sinfo prints, one it does not.
IgnorableNames ==
  {<<"g", "p", "u">>, <<"t", "m", "p">>}

IgnoredLists == SeqsUpTo(IgnorableNames, MaxIgnored)

(***************************************************************************)
(* The Partition structure and the map that holds it.                      *)
(***************************************************************************)
\* The zero value of struct Partition: empty strings and zero counters.
ZeroPartition ==
  [name |-> <<>>, state |-> <<>>,
   totalProcessors |-> <<>>, allocatedProcessors |-> <<>>,
   idleProcessors |-> <<>>, otherProcessors |-> <<>>,
   totalNodes |-> <<>>,
   socketsPerNode |-> <<>>, coresPerSocket |-> <<>>,
   threadsPerCore |-> <<>>, totalCoresPerNode |-> <<>>,
   totalMemoryPerNode |-> <<>>, totalMemoryPerCore |-> 0,
   totalMemoryPerCoreSuffix |-> <<>>,
   minimumNodesPerJob |-> <<>>, maximumNodesPerJob |-> <<>>,
   maximumCoresPerJob |-> <<>>,
   defaultTimePerJob |-> <<>>, maximumTimePerJob |-> <<>>,
   totalJobsCount |-> 0, runningJobsCount |-> 0,
   waitingJobsCount |-> 0, resourceWaitingJobsCount |-> 0]

\* make(map[string]Partition)
EmptyMap == [k \in {} |-> ZeroPartition]

\* m[k] = v guarded by a test for presence: the first entry under a key stays.
MapPutIfAbsent(m, k, v) ==
  [x \in DOMAIN m \cup {k} |-> IF x \in DOMAIN m THEN m[x] ELSE v]

\* m[k] = v on a map made anew for every insertion: only the last entry stays.
MapPutFresh(m, k, v) == [x \in {k} |-> v]

\* m[k] = v
MapPut(m, k, v) == [x \in DOMAIN m \cup {k} |-> IF x = k THEN v ELSE m[x]]

\* The record to update declared and never read from the map.
MapGetZero(m, k) == ZeroPartition

\* m[k] as an expression: the zero value when k is not a key.
MapGet(m, k) == IF k \in DOMAIN m THEN m[k] ELSE ZeroPartition

\* The deletion inverted: the entry of k is the one that is kept.
MapDeleteOthers(m, k) == [x \in DOMAIN m \cap {k} |-> m[x]]

\* delete(m, k): no effect when k is not a key.
MapDelete(m, k) == [x \in DOMAIN m \ {k} |-> m[x]]

(***************************************************************************)
(* parsePartitionsInformation, one line.                                   *)
(***************************************************************************)
\* The header comparison weakened to a prefix test on the first field name.
inventoryHeaderHasPrefix(header) ==
  /\ Len(header) >= 9
  /\ SubSeq(header, 1, 9) = SubSeq(inventoryReferenceHeader, 1, 9)

\* The header comparison of parsePartitionsInformation.
inventoryHeaderMatches(header) == header = inventoryReferenceHeader

\* totalMemoryPerCoreSuffix from the memory field split on "+".
memorySuffix(memoryInformation) ==
  IF Len(memoryInformation) > 1 THEN <<"+">> ELSE <<>>

\* The quotient rounded to the nearest integer instead of truncated.
memoryPerCoreRounded(totalMemoryPerNode, totalCoreCountPerNode) ==
  (2 * totalMemoryPerNode + totalCoreCountPerNode)
    \div (2 * totalCoreCountPerNode)

\* uint(totalMemoryPerNode) / uint(totalCoreCountPerNode), cores nonzero.
memoryPerCore(totalMemoryPerNode, totalCoreCountPerNode) ==
  totalMemoryPerNode \div totalCoreCountPerNode

\* The body of the loop of parsePartitionsInformation for one line.  The
\* outcome is "ok" (partition is the record to insert), "fatal" (a Fatalf
\* of the loop) or "panic" (an index out of range, or the division by zero).
parsePartitionLine(line) ==
  LET partitionFields == Split(line, "|")
      processorCounts == Split(partitionFields[6], "/")
      nodeLimits == Split(partitionFields[7], "-")
      processorGeometry == Split(partitionFields[8], ":")
      memoryInformation == Split(partitionFields[10], "+")
      totalMemoryPerNode == ParseUint(memoryInformation[1])
      totalCoreCountPerNode == ParseUint(Split(partitionFields[5], "+")[1])
      abort(kind) == [outcome |-> kind, partition |-> ZeroPartition]
  IN IF Len(partitionFields) < 6 THEN abort("panic")
     ELSE IF Len(processorCounts) < 4 THEN abort("panic")
     ELSE IF Len(partitionFields) < 7 THEN abort("panic")
     ELSE IF Len(nodeLimits) < 2 THEN abort("panic")
     ELSE IF Len(partitionFields) < 8 THEN abort("panic")
     ELSE IF Len(processorGeometry) < 3 THEN abort("panic")
     ELSE IF Len(partitionFields) < 10 THEN abort("panic")
     ELSE IF totalMemoryPerNode.err THEN abort("fatal")
     ELSE IF totalCoreCountPerNode.err THEN abort("fatal")
     ELSE IF totalCoreCountPerNode.value = 0 THEN abort("panic")
     ELSE [outcome |-> "ok",
           partition |->
             [ZeroPartition EXCEPT
                !.name = partitionFields[1],
                !.state = partitionFields[2],
                !.totalNodes = partitionFields[3],
                !.maximumCoresPerJob = partitionFields[4],
                !.totalCoresPerNode = partitionFields[5],
                !.allocatedProcessors = processorCounts[1],
                !.idleProcessors = processorCounts[2],
                !.otherProcessors = processorCounts[3],
                !.totalProcessors = processorCounts[4],
                !.minimumNodesPerJob = nodeLimits[1],
                !.maximumNodesPerJob = nodeLimits[2],
                !.socketsPerNode = processorGeometry[1],
                !.coresPerSocket = processorGeometry[2],
                !.threadsPerCore = processorGeometry[3],
                !.maximumTimePerJob = partitionFields[9],
                !.totalMemoryPerNode = partitionFields[10],
                !.totalMemoryPerCoreSuffix = memorySuffix(memoryInformation),
                !.totalMemoryPerCore =
                  memoryPerCore(totalMemoryPerNode.value,
                                totalCoreCountPerNode.value)]]

(***************************************************************************)
(* parseQueueStateFile, one line.                                          *)
(***************************************************************************)
\* The header comparison with the operands of a prefix test swapped: every
\* beginning of the reference header passes.
queueHeaderIsPrefix(header) ==
  /\ Len(header) <= Len(queueReferenceHeader)
  /\ header = SubSeq(queueReferenceHeader, 1, Len(header))

\* The header comparison of parseQueueStateFile.
queueHeaderMatches(header) == TrimRight(header, "\n") = queueReferenceHeader

\* The job state and reason literals of the switch of parseQueueStateFile.
StateRunning == <<"R", "U", "N", "N", "I", "N", "G">>

StatePending == <<"P", "E", "N", "D", "I", "N", "G">>

ReasonResources == <<"R", "e", "s", "o", "u", "r", "c", "e", "s">>

\* countJob with the total incremented inside the switch: a job in a state
\* without a case is not counted at all.
countJobTotalInSwitch(partitionToWorkOn, jobState, reason) ==
  IF jobState = StateRunning
  THEN [partitionToWorkOn EXCEPT
          !.runningJobsCount = @ + 1, !.totalJobsCount = @ + 1]
  ELSE IF jobState = StatePending
  THEN IF reason = ReasonResources
       THEN [partitionToWorkOn EXCEPT
               !.waitingJobsCount = @ + 1,
               !.resourceWaitingJobsCount = @ + 1,
               !.totalJobsCount = @ + 1]
       ELSE [partitionToWorkOn EXCEPT
               !.waitingJobsCount = @ + 1, !.totalJobsCount = @ + 1]
  ELSE partitionToWorkOn

\* countJob with the reason tested outside the PENDING case: every job with
\* reason Resources counts as waiting for resources.
countJobReasonAnyState(partitionToWorkOn, jobState, reason) ==
  LET counted ==
        IF jobState = StateRunning
        THEN [partitionToWorkOn EXCEPT !.runningJobsCount = @ + 1]
        ELSE IF jobState = StatePending
        THEN [partitionToWorkOn EXCEPT !.waitingJobsCount = @ + 1]
        ELSE partitionToWorkOn
      reasoned ==
        IF reason = ReasonResources
        THEN [counted EXCEPT !.resourceWaitingJobsCount = @ + 1]
        ELSE counted
  IN [reasoned EXCEPT !.totalJobsCount = @ + 1]

\* countJob with the two counts of a pending job in the branches of one
\* test: a job waiting for resources is not counted as waiting.
countJobWaitingOrResource(partitionToWorkOn, jobState, reason) ==
  LET counted ==
        IF jobState = StateRunning
        THEN [partitionToWorkOn EXCEPT !.runningJobsCount = @ + 1]
        ELSE IF jobState = StatePending
        THEN IF reason = ReasonResources
             THEN [partitionToWorkOn EXCEPT !.resourceWaitingJobsCount = @ + 1]
             ELSE [partitionToWorkOn EXCEPT !.waitingJobsCount = @ + 1]
        ELSE partitionToWorkOn
  IN [counted EXCEPT !.totalJobsCount = @ + 1]

\* countJob with the resource-waiting count assigned from the waiting count
\* instead of incremented.
countJobResourceAssigned(partitionToWorkOn, jobState, reason) ==
  LET counted ==
        IF jobState = StateRunning
        THEN [partitionToWorkOn EXCEPT !.runningJobsCount = @ + 1]
        ELSE IF jobState = StatePending
        THEN IF reason = ReasonResources
             THEN [partitionToWorkOn EXCEPT
                     !.waitingJobsCount = @ + 1,
                     !.resourceWaitingJobsCount =
                       partitionToWorkOn.waitingJobsCount + 1]
             ELSE [partitionToWorkOn EXCEPT !.waitingJobsCount = @ + 1]
        ELSE partitionToWorkOn
  IN [counted EXCEPT !.totalJobsCount = @ + 1]

\* The switch on the job state and the increment of the total, applied to
\* the copy of the record taken out of the map.
countJob(partitionToWorkOn, jobState, reason) ==
  LET counted ==
        IF jobState = StateRunning
        THEN [partitionToWorkOn EXCEPT !.runningJobsCount = @ + 1]
        ELSE IF jobState = StatePending
        THEN IF reason = ReasonResources
             THEN [partitionToWorkOn EXCEPT
                     !.waitingJobsCount = @ + 1,
                     !.resourceWaitingJobsCount = @ + 1]
             ELSE [partitionToWorkOn EXCEPT !.waitingJobsCount = @ + 1]
        ELSE partitionToWorkOn
  IN [counted EXCEPT !.totalJobsCount = @ + 1]

\* The membership test left out: every line is taken as a known partition.
partitionIsAvailableAlways(available, name) == TRUE

\* slices.Contains(availablePartitions, name); the slice holds the keys of
\* the map in the order of a map iteration, which Contains does not observe,
\* so it is kept as the set of its elements.
partitionIsAvailable(available, name) == name \in available

\* The body of the loop reading a missing field as the empty string: a short
\* line of a known partition is counted.
mergeLinePadding(partitions, available, line) ==
  LET lineFields == Split(line, "|") \o << <<>>, <<>> >>
  IN IF partitionIsAvailable(available, lineFields[1])
     THEN [panic |-> FALSE,
           partitions |->
             MapPut(partitions, lineFields[1],
                    countJob(MapGet(partitions, lineFields[1]),
                             lineFields[2], lineFields[3]))]
     ELSE [panic |-> FALSE, partitions |-> partitions]

\* The body of the loop without the test for a known partition: the line is
\* counted under its first field, known or not.
mergeLineUnchecked(partitions, available, line) ==
  LET lineFields == Split(line, "|")
  IN IF Len(lineFields) < 3
     THEN [panic |-> partitionIsAvailable(available, lineFields[1]),
           partitions |-> partitions]
     ELSE [panic |-> FALSE,
           partitions |->
             MapPut(partitions, lineFields[1],
                    countJob(MapGet(partitions, lineFields[1]),
                             lineFields[2], lineFields[3]))]

\* The body of the loop of parseQueueStateFile for one line: the map after
\* the line, or a panic when the line of a known partition has fewer than
\* three fields (the arguments of the first Debugf index fields 1 and 2).
mergeLine(partitions, available, line) ==
  LET lineFields == Split(line, "|")
  IN IF partitionIsAvailable(available, lineFields[1])
     THEN IF Len(lineFields) < 3
          THEN [panic |-> TRUE, partitions |-> partitions]
          ELSE [panic |-> FALSE,
                partitions |->
                  MapPut(partitions, lineFields[1],
                         countJob(MapGet(partitions, lineFields[1]),
                                  lineFields[2], lineFields[3]))]
     ELSE [panic |-> FALSE, partitions |-> partitions]

\* The whole loop of parseQueueStateFile over lines, from the first line on;
\* the map is the one reached when the loop ends or panics.
RECURSIVE mergeLines(_, _, _)
mergeLines(partitions, available, lines) ==
  IF lines = <<>> THEN [panic |-> FALSE, partitions |-> partitions]
  ELSE LET first == mergeLine(partitions, available, lines[1])
       IN IF first.panic THEN first
          ELSE mergeLines(first.partitions, available, Tail(lines))

(***************************************************************************)
(* removeIgnoredQueues.                                                    *)
(***************************************************************************)
\* The loop working on a copy of the map: the caller's map keeps every entry.
deleteIgnoredOnCopy(partitions, ignored) == partitions

\* The loop of removeIgnoredQueues: one delete per listed name, in order.
RECURSIVE deleteIgnored(_, _)
deleteIgnored(partitions, ignored) ==
  IF ignored = <<>> THEN partitions
  ELSE deleteIgnored(MapDelete(partitions, ignored[1]), Tail(ignored))

(***************************************************************************)
(* State.                                                                  *)
(***************************************************************************)
VARIABLES
  pc,                         \* position of main, "fatal" after os.Exit(1),
                              \* "panic" after a run-time panic
  stages,                     \* the stages started so far, in order
  ignoredPartitions,          \* removeIgnoredQueues: the list it was given
  sinfoErr,                   \* err of exec.LookPath / Cmd.Output
  partitionInformation,       \* main: output of sinfo, trailing \n trimmed
  partitionsInformationLines, \* parsePartitionsInformation: lines after the header
  lineNumber,                 \* parsePartitionsInformation: loop index
  partitionsMap,              \* main: the map of partitions
  inventoryMap,               \* the map as parsePartitionsInformation returned it
  fileErr,                    \* err of os.Stat / os.Open / File.Read
  queueStateToParse,          \* parseQueueStateFile: file content, trimmed
  queueStateToParseLines,     \* parseQueueStateFile: lines after the header
  availablePartitions,        \* parseQueueStateFile: keys of the map
  queueLineNumber,            \* parseQueueStateFile: loop index
  presentCalls                \* the maps presentInformation was called with

vars ==
  <<pc, stages, ignoredPartitions, sinfoErr, partitionInformation,
    partitionsInformationLines, lineNumber, partitionsMap, inventoryMap,
    fileErr, queueStateToParse, queueStateToParseLines, availablePartitions,
    queueLineNumber, presentCalls>>

\* main up to line 568: the configuration is read, nothing is collected yet.
Init ==
  /\ pc = "main"
  /\ stages = <<>>
  /\ ignoredPartitions = <<>>
  /\ sinfoErr = "nil"
  /\ partitionInformation = <<>>
  /\ partitionsInformationLines = <<>>
  /\ lineNumber = 0
  /\ partitionsMap = EmptyMap
  /\ inventoryMap = EmptyMap
  /\ fileErr = "nil"
  /\ queueStateToParse = <<>>
  /\ queueStateToParseLines = <<>>
  /\ availablePartitions = {}
  /\ queueLineNumber = 0
  /\ presentCalls = <<>>

(***************************************************************************)
(* Actions.                                                                *)
(***************************************************************************)
\* getPartitionsInformation: sinfo is not found, or fails, or prints.
getPartitionsInformation ==
  /\ pc = "main"
  /\ stages' = Append(stages, "InventoryCollector")
  /\ \/ /\ \E err \in {"LookPath", "Output"} : sinfoErr' = err
        /\ pc' = "fatal"
        /\ UNCHANGED partitionInformation
     \/ /\ \E output \in SinfoOutputs :
             partitionInformation' = TrimRight(output, "\n")
        /\ pc' = "collected"
        /\ UNCHANGED sinfoErr
  /\ UNCHANGED <<ignoredPartitions, partitionsInformationLines, lineNumber,
                 partitionsMap, inventoryMap, fileErr, queueStateToParse,
                 queueStateToParseLines, availablePartitions, queueLineNumber,
                 presentCalls>>

\* parsePartitionsInformation up to the loop: split, header check, make.
parsePartitionsInformationBegin ==
  /\ pc = "collected"
  /\ stages' = Append(stages, "InventoryParser")
  /\ LET lines == Split(partitionInformation, "\n")
     IN IF inventoryHeaderMatches(lines[1])
        THEN /\ partitionsInformationLines' = Tail(lines)
             /\ lineNumber' = 0
             /\ partitionsMap' = EmptyMap
             /\ pc' = "parsing"
        ELSE /\ pc' = "fatal"
             /\ UNCHANGED <<partitionsInformationLines, lineNumber,
                            partitionsMap>>
  /\ UNCHANGED <<ignoredPartitions, sinfoErr, partitionInformation,
                 inventoryMap, fileErr, queueStateToParse,
                 queueStateToParseLines, availablePartitions, queueLineNumber,
                 presentCalls>>

\* One iteration of the loop that gives up the line it cannot handle and
\* goes on with the next one.
parsePartitionsInformationLineSkipping ==
  /\ pc = "parsing"
  /\ lineNumber < Len(partitionsInformationLines)
  /\ LET parsed == parsePartitionLine(partitionsInformationLines[lineNumber + 1])
     IN /\ partitionsMap' =
             IF parsed.outcome = "ok"
             THEN MapPut(partitionsMap, parsed.partition.name, parsed.partition)
             ELSE partitionsMap
        /\ lineNumber' = lineNumber + 1
        /\ pc' = "parsing"
  /\ UNCHANGED <<stages, ignoredPartitions, sinfoErr, partitionInformation,
                 partitionsInformationLines, inventoryMap, fileErr,
                 queueStateToParse, queueStateToParseLines,
                 availablePartitions, queueLineNumber, presentCalls>>

\* One iteration of the loop with the maximum of the job size normalised: a
\* maximum that is not a number is stored as "0".
parsePartitionsInformationLineSentinel ==
  /\ pc = "parsing"
  /\ lineNumber < Len(partitionsInformationLines)
  /\ LET parsed == parsePartitionLine(partitionsInformationLines[lineNumber + 1])
         maximum == parsed.partition.maximumNodesPerJob
         stored ==
           IF maximum # <<>> /\ \A i \in 1..Len(maximum) : maximum[i] \in Digits
           THEN parsed.partition
           ELSE [parsed.partition EXCEPT !.maximumNodesPerJob = <<"0">>]
     IN IF parsed.outcome = "ok"
        THEN /\ partitionsMap' = MapPut(partitionsMap, stored.name, stored)
             /\ lineNumber' = lineNumber + 1
             /\ pc' = "parsing"
        ELSE /\ pc' = parsed.outcome
             /\ UNCHANGED <<partitionsMap, lineNumber>>
  /\ UNCHANGED <<stages, ignoredPartitions, sinfoErr, partitionInformation,
                 partitionsInformationLines, inventoryMap, fileErr,
                 queueStateToParse, queueStateToParseLines,
                 availablePartitions, queueLineNumber, presentCalls>>

\* One iteration of the loop of parsePartitionsInformation.
parsePartitionsInformationLine ==
  /\ pc = "parsing"
  /\ lineNumber < Len(partitionsInformationLines)
  /\ LET parsed == parsePartitionLine(partitionsInformationLines[lineNumber + 1])
     IN IF parsed.outcome = "ok"
        THEN /\ partitionsMap' =
                  MapPut(partitionsMap, parsed.partition.name, parsed.partition)
             /\ lineNumber' = lineNumber + 1
             /\ pc' = "parsing"
        ELSE /\ pc' = parsed.outcome
             /\ UNCHANGED <<partitionsMap, lineNumber>>
  /\ UNCHANGED <<stages, ignoredPartitions, sinfoErr, partitionInformation,
                 partitionsInformationLines, inventoryMap, fileErr,
                 queueStateToParse, queueStateToParseLines,
                 availablePartitions, queueLineNumber, presentCalls>>

\* The loop of parsePartitionsInformation ends; the map is returned to main.
parsePartitionsInformationReturn ==
  /\ pc = "parsing"
  /\ lineNumber = Len(partitionsInformationLines)
  /\ inventoryMap' = partitionsMap
  /\ pc' = "parsed"
  /\ UNCHANGED <<stages, ignoredPartitions, sinfoErr, partitionInformation,
                 partitionsInformationLines, lineNumber, partitionsMap,
                 fileErr, queueStateToParse, queueStateToParseLines,
                 availablePartitions, queueLineNumber, presentCalls>>

\* parseQueueStateFile up to the loop: stat, open, read, trim, split, header
\* check, list of the available partitions.
parseQueueStateFileBegin ==
  /\ pc = "parsed"
  /\ \/ /\ \E err \in {"Stat", "Open", "Read"} : fileErr' = err
        /\ stages' = Append(stages, "SnapshotReader")
        /\ pc' = "fatal"
        /\ UNCHANGED <<queueStateToParse, queueStateToParseLines,
                       availablePartitions, queueLineNumber>>
     \/ \E content \in QueueStateFiles :
          LET trimmed == TrimRight(content, "\n")
              lines == Split(trimmed, "\n")
          IN /\ queueStateToParse' = trimmed
             /\ UNCHANGED fileErr
             /\ IF queueHeaderMatches(lines[1])
                THEN /\ queueStateToParseLines' = Tail(lines)
                     /\ availablePartitions' = DOMAIN partitionsMap
                     /\ queueLineNumber' = 0
                     /\ stages' = stages \o <<"SnapshotReader",
                       "QueueMerger">>
                     /\ pc' = "merging"
                ELSE /\ stages' = Append(stages, "SnapshotReader")
                     /\ pc' = "fatal"
                     /\ UNCHANGED <<queueStateToParseLines,
                                    availablePartitions, queueLineNumber>>
  /\ UNCHANGED <<ignoredPartitions, sinfoErr, partitionInformation,
                 partitionsInformationLines, lineNumber, partitionsMap,
                 inventoryMap, presentCalls>>

\* One iteration of the loop of parseQueueStateFile.
parseQueueStateFileLine ==
  /\ pc = "merging"
  /\ queueLineNumber < Len(queueStateToParseLines)
  /\ LET merged == mergeLine(partitionsMap, availablePartitions,
                             queueStateToParseLines[queueLineNumber + 1])
     IN IF merged.panic
        THEN /\ pc' = "panic"
             /\ UNCHANGED <<partitionsMap, queueLineNumber>>
        ELSE /\ partitionsMap' = merged.partitions
             /\ queueLineNumber' = queueLineNumber + 1
             /\ pc' = "merging"
  /\ UNCHANGED <<stages, ignoredPartitions, sinfoErr, partitionInformation,
                 partitionsInformationLines, lineNumber, inventoryMap,
                 fileErr, queueStateToParse, queueStateToParseLines,
                 availablePartitions, presentCalls>>

\* The return of parseQueueStateFile followed at once by the presentation:
\* main without its call of removeIgnoredQueues.
parseQueueStateFileReturnToPresenter ==
  /\ pc = "merging"
  /\ queueLineNumber = Len(queueStateToParseLines)
  /\ pc' = "filtered"
  /\ UNCHANGED <<stages, ignoredPartitions, sinfoErr, partitionInformation,
                 partitionsInformationLines, lineNumber, partitionsMap,
                 inventoryMap, fileErr, queueStateToParse,
                 queueStateToParseLines, availablePartitions, queueLineNumber,
                 presentCalls>>

\* The loop of parseQueueStateFile ends; the file information is returned.
parseQueueStateFileReturn ==
  /\ pc = "merging"
  /\ queueLineNumber = Len(queueStateToParseLines)
  /\ pc' = "merged"
  /\ UNCHANGED <<stages, ignoredPartitions, sinfoErr, partitionInformation,
                 partitionsInformationLines, lineNumber, partitionsMap,
                 inventoryMap, fileErr, queueStateToParse,
                 queueStateToParseLines, availablePartitions, queueLineNumber,
                 presentCalls>>

\* removeIgnoredQueues: every name of runtimeConfiguration.ignoredPartitions
\* is deleted from the map.  The list is whatever the configuration file
\* holds; nothing reads it before this call.
removeIgnoredQueues ==
  /\ pc = "merged"
  /\ stages' = Append(stages, "PartitionFilter")
  /\ \E configured \in IgnoredLists :
       /\ ignoredPartitions' = configured
       /\ partitionsMap' = deleteIgnored(partitionsMap, configured)
  /\ pc' = "filtered"
  /\ UNCHANGED <<sinfoErr, partitionInformation,
                 partitionsInformationLines, lineNumber, inventoryMap,
                 fileErr, queueStateToParse, queueStateToParseLines,
                 availablePartitions, queueLineNumber, presentCalls>>

\* presentInformation: the table is rendered from the map; main returns.
presentInformation ==
  /\ pc = "filtered"
  /\ stages' = Append(stages, "Presenter")
  /\ presentCalls' = Append(presentCalls, partitionsMap)
  /\ pc' = "done"
  /\ UNCHANGED <<ignoredPartitions, sinfoErr, partitionInformation,
                 partitionsInformationLines, lineNumber, partitionsMap,
                 inventoryMap, fileErr, queueStateToParse,
                 queueStateToParseLines, availablePartitions, queueLineNumber>>

Next ==
  \/ getPartitionsInformation
  \/ parsePartitionsInformationBegin
  \/ parsePartitionsInformationLine
  \/ parsePartitionsInformationReturn
  \/ parseQueueStateFileBegin
  \/ parseQueueStateFileLine
  \/ parseQueueStateFileReturn
  \/ removeIgnoredQueues
  \/ presentInformation

Spec == Init /\ [][Next]_vars

(***************************************************************************)
(* Vocabulary of the properties.                                           *)
(***************************************************************************)
\* The first field of a pipe-delimited line.
FirstField(line) == Split(line, "|")[1]

\* The program has returned from parseQueueStateFile.
MergeDone == pc \in {"merged", "filtered", "done"}

\* The line the loop of parseQueueStateFile handles next.
CurrentJobLine == queueStateToParseLines[queueLineNumber + 1]

\* The line the loop of parseQueueStateFile handled last.
LastJobLine == queueStateToParseLines[queueLineNumber]

(***************************************************************************)
(* Properties.                                                             *)
(***************************************************************************)
\* C1: a step of the loop of parseQueueStateFile on a job line whose first
\* field is not a key of the mapping leaves the mapping unchanged: no entry
\* is added and no counter of an existing record changes.
C1_UnknownPartitionLineLeavesMap ==
  [][(/\ pc = "merging"
      /\ queueLineNumber < Len(queueStateToParseLines)
      /\ FirstField(CurrentJobLine) \notin DOMAIN partitionsMap)
     => (partitionsMap' = partitionsMap /\ pc' = "merging")]_vars

\* C1 witness: the loop has just passed a line of a partition that is not in
\* the non-empty mapping, after counting a job of a known partition.
C1_Witness ==
  /\ pc = "merging"
  /\ queueLineNumber = 2
  /\ FirstField(LastJobLine) \notin DOMAIN partitionsMap
  /\ \E p \in DOMAIN partitionsMap : partitionsMap[p].totalJobsCount = 1

\* The job lines of the snapshot whose first field is the name p.
JobLinesOf(p) ==
  {i \in 1..Len(queueStateToParseLines) :
     FirstField(queueStateToParseLines[i]) = p}

\* The job lines of p whose state field is exactly jobState.
JobLinesInState(p, jobState) ==
  {i \in JobLinesOf(p) : Split(queueStateToParseLines[i], "|")[2] = jobState}

\* The job lines of p whose state and reason fields are exactly these.
JobLinesInStateFor(p, jobState, reason) ==
  {i \in JobLinesInState(p, jobState) :
     Split(queueStateToParseLines[i], "|")[3] = reason}

\* The rearrangements of a sequence.
PermutationsOf(s) ==
  {[i \in 1..Len(s) |-> s[f[i]]] :
     f \in {g \in [1..Len(s) -> 1..Len(s)] :
              \A i, j \in 1..Len(s) : g[i] = g[j] => i = j}}

\* C2: once parseQueueStateFile has handled every job line, the
\* totalJobsCount of each partition of the mapping is the number of job lines
\* whose first field is its name, whatever their state and reason.
C2_TotalIsLineCount ==
  MergeDone =>
    \A p \in DOMAIN partitionsMap :
      partitionsMap[p].totalJobsCount = Cardinality(JobLinesOf(p))

\* C2 witness: a partition ends with two jobs, one of them in a state that
\* has no counter of its own.
C2_Witness ==
  /\ pc = "merged"
  /\ \E p \in DOMAIN partitionsMap :
       /\ partitionsMap[p].totalJobsCount = 2
       /\ partitionsMap[p].runningJobsCount + partitionsMap[p].waitingJobsCount = 1

C4_MergeIsOrderIndependent ==
  pc = "merged" =>
    \A permuted \in PermutationsOf(queueStateToParseLines) :
      LET other == mergeLines(inventoryMap, DOMAIN inventoryMap, permuted)
      IN ~other.panic /\ other.partitions = partitionsMap

\* C4 witness: two different job lines of one partition were merged, so the
\* snapshot has a rearrangement that differs from it.
C4_Witness ==
  /\ pc = "merged"
  /\ Len(queueStateToParseLines) = 2
  /\ queueStateToParseLines[1] # queueStateToParseLines[2]
  /\ FirstField(queueStateToParseLines[1]) = FirstField(queueStateToParseLines[2])
  /\ \E p \in DOMAIN partitionsMap : partitionsMap[p].waitingJobsCount = 2

\* The stage has been entered in this run.
Started(stage) == \E i \in 1..Len(stages) : stages[i] = stage

\* The first line of a text is the given line (which holds no line break).
FirstLineIs(text, line) ==
  /\ Len(text) >= Len(line)
  /\ SubSeq(text, 1, Len(line)) = line
  /\ Len(text) = Len(line) \/ text[Len(line) + 1] = "\n"

\* A field is a decimal number, with or without one trailing "+".
IsNumberOrNumberPlus(field) ==
  LET digits ==
        IF field # <<>> /\ field[Len(field)] = "+"
        THEN SubSeq(field, 1, Len(field) - 1)
        ELSE field
  IN digits # <<>> /\ \A i \in 1..Len(digits) : digits[i] \in Digits

\* An inventory line with all ten fields whose cores-per-node or memory field
\* is not a number.
HasValueError(line) ==
  LET fields == Split(line, "|")
  IN /\ Len(fields) >= 10
     /\ ~(IsNumberOrNumberPlus(fields[5]) /\ IsNumberOrNumberPlus(fields[10]))

\* One of the fatal conditions is present in what the stages have read so
\* far: sinfo missing or failing, an inventory header mismatch, a value
\* error in an inventory line, a stat/open/read failure, a snapshot header
\* mismatch.
FatalCondition ==
  \/ sinfoErr # "nil"
  \/ fileErr # "nil"
  \/ /\ Started("InventoryParser")
     /\ ~FirstLineIs(partitionInformation, inventoryReferenceHeader)
  \/ \E i \in 1..Len(partitionsInformationLines) :
       HasValueError(partitionsInformationLines[i])
  \/ /\ Started("SnapshotReader")
     /\ fileErr = "nil"
     /\ ~FirstLineIs(queueStateToParse, queueReferenceHeader)

\* C5: when the first line of the sinfo output is not the reference header
\* (the empty output included), parsePartitionsInformation ends the run with
\* a fatal error and no Partition record exists, whatever the other lines are.
C5_HeaderMismatchIsFatal ==
  (/\ Started("InventoryParser")
   /\ ~FirstLineIs(partitionInformation, inventoryReferenceHeader))
  => /\ pc = "fatal"
     /\ DOMAIN partitionsMap = {}
     /\ DOMAIN inventoryMap = {}
     /\ lineNumber = 0
     /\ stages = <<"InventoryCollector", "InventoryParser">>

\* C5 witness: a header that differs from the reference in one delimiter,
\* followed by a partition line that would parse, has ended the run.
C5_Witness ==
  /\ pc = "fatal"
  /\ Started("InventoryParser")
  /\ FirstLineIs(partitionInformation, HeaderWrongDelimiter)
  /\ Len(Split(partitionInformation, "\n")) = 2
  /\ Split(partitionInformation, "\n")[2] = LineGpu

\* C6: in every state of a run that met a fatal error, presentInformation
\* has not been called: nothing is presented after sinfo is missing or
\* fails, after a header mismatch in either source, after a value error, or
\* after a stat/open/read failure, and nothing happens after the exit.
C6_NoPresentationAfterFatal ==
  (pc = "fatal" \/ FatalCondition)
  => /\ presentCalls = <<>>
     /\ ~Started("Presenter")
     /\ pc \in {"fatal", "panic"} \/ (pc = "parsing" /\ FatalCondition)

\* C6 witness: the snapshot header did not match after the inventory had
\* been parsed into a non-empty mapping, and the run ended without a table.
C6_Witness ==
  /\ pc = "fatal"
  /\ Started("SnapshotReader")
  /\ fileErr = "nil"
  /\ FirstLineIs(queueStateToParse, QueueHeaderWrong)
  /\ DOMAIN partitionsMap # {}
  /\ presentCalls = <<>>

\* The lines of the sinfo output after its first line.
InventoryBody == Tail(Split(partitionInformation, "\n"))

\* A field is a decimal number.
IsNumber(field) ==
  field # <<>> /\ \A i \in 1..Len(field) : field[i] \in Digits

\* A field carries a trailing "+".
HasPlus(field) == field # <<>> /\ field[Len(field)] = "+"

\* A field without its trailing "+", if it has one.
WithoutPlus(field) ==
  IF HasPlus(field) THEN SubSeq(field, 1, Len(field) - 1) ELSE field

\* The number a string of decimal digits denotes.
RECURSIVE DecimalValue(_)
DecimalValue(digits) ==
  IF digits = <<>> THEN 0
  ELSE 10 * DecimalValue(SubSeq(digits, 1, Len(digits) - 1))
         + DigitValue(digits[Len(digits)])

\* A well-formed inventory line: ten fields; a numeric node count; a nonzero
\* cores-per-node number and a memory number, each with or without "+"; four
\* numbers separated by "/"; a numeric minimum and a maximum separated by
\* "-"; three numbers separated by ":".
WellFormedLine(line) ==
  LET fields == Split(line, "|")
  IN /\ Len(fields) = 10
     /\ IsNumber(fields[3])
     /\ IsNumberOrNumberPlus(fields[5])
     /\ DecimalValue(WithoutPlus(fields[5])) > 0
     /\ LET counts == Split(fields[6], "/")
        IN Len(counts) = 4 /\ \A i \in 1..4 : IsNumber(counts[i])
     /\ LET limits == Split(fields[7], "-")
        IN Len(limits) = 2 /\ IsNumber(limits[1]) /\ limits[2] # <<>>
     /\ LET geometry == Split(fields[8], ":")
        IN Len(geometry) = 3 /\ \A i \in 1..3 : IsNumber(geometry[i])
     /\ IsNumberOrNumberPlus(fields[10])

\* The sinfo output has the reference header and only well-formed lines.
WellFormedInventory ==
  /\ FirstLineIs(partitionInformation, inventoryReferenceHeader)
  /\ \A i \in 1..Len(InventoryBody) : WellFormedLine(InventoryBody[i])

\* The first fields of the lines after the header.
InventoryNames == {FirstField(InventoryBody[i]) : i \in 1..Len(InventoryBody)}

\* The line the loop of parsePartitionsInformation handles next.
CurrentPartitionLine == partitionsInformationLines[lineNumber + 1]

\* The loop of parsePartitionsInformation is about to handle a well-formed line.
AtWellFormedLine ==
  /\ pc = "parsing"
  /\ lineNumber < Len(partitionsInformationLines)
  /\ WellFormedLine(CurrentPartitionLine)

\* C7 as stated: on a well-formed inventory the returned mapping has one
\* record per non-header line, keyed by the first field, so as many records
\* as non-header lines.
C7_OneRecordPerLine ==
  (pc = "parsed" /\ WellFormedInventory)
  => /\ DOMAIN partitionsMap = InventoryNames
     /\ Cardinality(DOMAIN partitionsMap) = Len(InventoryBody)

\* C7 amended: on a well-formed inventory parsePartitionsInformation returns,
\* and the keys of the mapping are exactly the first fields of the non-header
\* lines, each record carrying its key as name; the records are as many as
\* the lines when no two lines share their first field.
C7_OneRecordPerName ==
  (/\ Started("InventoryParser")
   /\ ~Started("SnapshotReader")
   /\ WellFormedInventory)
  => /\ pc \in {"parsing", "parsed"}
     /\ pc = "parsed" =>
          /\ DOMAIN partitionsMap = InventoryNames
          /\ \A name \in DOMAIN partitionsMap : partitionsMap[name].name = name
          /\ (\A i, j \in 1..Len(InventoryBody) :
                FirstField(InventoryBody[i]) = FirstField(InventoryBody[j])
                  => i = j)
             => Cardinality(DOMAIN partitionsMap) = Len(InventoryBody)

\* C7 witness: two well-formed lines with different names were parsed into
\* two records.
C7_Witness ==
  /\ pc = "parsed"
  /\ WellFormedInventory
  /\ Len(InventoryBody) = 2
  /\ Cardinality(DOMAIN partitionsMap) = 2

\* C8: the step of parsePartitionsInformation on a well-formed line stores a
\* record whose totalMemoryPerCore is the floor of the quotient of the memory
\* number by the cores-per-node number, both read without their "+" marker.
C8_MemoryPerCoreIsFloor ==
  [][AtWellFormedLine =>
       LET fields == Split(CurrentPartitionLine, "|")
           memory == DecimalValue(WithoutPlus(fields[10]))
           cores == DecimalValue(WithoutPlus(fields[5]))
       IN /\ pc' = "parsing"
          /\ fields[1] \in DOMAIN partitionsMap'
          /\ LET quotient == partitionsMap'[fields[1]].totalMemoryPerCore
             IN /\ quotient * cores <= memory
                /\ memory < (quotient + 1) * cores]_vars

\* C8 witness: 64000+ over 32+ gave 2000 and 1000+ over 7 gave 142, not 143.
C8_Witness ==
  /\ pc = "parsing"
  /\ partitionsInformationLines = <<LineCpuBothPlus, LineGpuMemPlus>>
  /\ lineNumber = 2
  /\ partitionsMap[FirstField(LineCpuBothPlus)].totalMemoryPerCore = 2000
  /\ partitionsMap[FirstField(LineGpuMemPlus)].totalMemoryPerCore = 142

\* C9: the step of parsePartitionsInformation on a well-formed line stores a
\* record whose totalMemoryPerCoreSuffix is "+" exactly when the memory field
\* or the cores-per-node field carries a trailing "+".
C9_FlagIffEitherPlus ==
  [][AtWellFormedLine =>
       LET fields == Split(CurrentPartitionLine, "|")
       IN /\ fields[1] \in DOMAIN partitionsMap'
          /\ (partitionsMap'[fields[1]].totalMemoryPerCoreSuffix = <<"+">>)
               <=> (HasPlus(fields[10]) \/ HasPlus(fields[5]))]_vars

\* C10: removeIgnoredQueues ends without error on every list, removes exactly
\* the entries whose key is listed, and keeps every other entry with all its
\* fields; listed names that are not keys change nothing.
C10_FilterRemovesExactlyListed ==
  [][pc = "merged" =>
       LET listed == {ignoredPartitions'[i] : i \in 1..Len(ignoredPartitions')}
       IN /\ pc' = "filtered"
          /\ DOMAIN partitionsMap' = DOMAIN partitionsMap \ listed
          /\ \A name \in DOMAIN partitionsMap' :
               partitionsMap'[name] = partitionsMap[name]]_vars

\* C10 witness: a listed partition that had jobs was removed while another
\* partition stayed in the mapping.
C10_Witness ==
  /\ pc = "filtered"
  /\ Len(ignoredPartitions) = 1
  /\ ignoredPartitions[1] \in DOMAIN inventoryMap
  /\ ignoredPartitions[1] \notin DOMAIN partitionsMap
  /\ DOMAIN partitionsMap # {}
  /\ Cardinality(JobLinesOf(ignoredPartitions[1])) > 0

\* The names the configured list holds.
ListedNames == {ignoredPartitions[i] : i \in 1..Len(ignoredPartitions)}

\* C11: presentInformation is handed a mapping whose names are exactly the
\* names of the sinfo output that the configured list does not hold,
\* whatever the snapshot contains: no partition that only the snapshot
\* names is shown, and no ignored partition is shown.
C11_PresentedNamesAreInventoryMinusIgnored ==
  [][pc = "filtered" =>
       /\ pc' = "done"
       /\ Len(presentCalls') = 1
       /\ DOMAIN presentCalls'[1] = InventoryNames \ ListedNames]_vars

\* C11 witness: the table was made from a non-empty mapping although the
\* snapshot held a job of a partition sinfo did not print and the list held
\* a partition sinfo did print.
C11_Witness ==
  /\ pc = "done"
  /\ Len(presentCalls) = 1
  /\ DOMAIN presentCalls[1] # {}
  /\ \E name \in ListedNames : name \in InventoryNames
  /\ \E i \in 1..Len(queueStateToParseLines) :
       FirstField(queueStateToParseLines[i]) \notin InventoryNames

\* The part of a field before its first "+".
BeforePlus(field) ==
  LET plus == {i \in 1..Len(field) : field[i] = "+"}
  IN IF plus = {} THEN field
     ELSE SubSeq(field, 1, (CHOOSE i \in plus : \A j \in plus : i <= j) - 1)

\* An inventory line with ten fields or more whose processor counts, job-size
\* bounds and processor geometry have all their parts.
HasAllParts(line) ==
  LET fields == Split(line, "|")
  IN /\ Len(fields) >= 10
     /\ Len(Split(fields[6], "/")) >= 4
     /\ Len(Split(fields[7], "-")) >= 2
     /\ Len(Split(fields[8], ":")) >= 3

\* A line with all its parts that has something else than a number as node
\* count, cores per node, memory, a processor count, a part of the processor
\* geometry or the minimum of the job size.
HasNonNumericField(line) ==
  LET fields == Split(line, "|")
      counts == Split(fields[6], "/")
      geometry == Split(fields[8], ":")
  IN /\ HasAllParts(line)
     /\ \/ ~IsNumber(fields[3])
        \/ ~IsNumberOrNumberPlus(fields[5])
        \/ ~IsNumberOrNumberPlus(fields[10])
        \/ \E i \in 1..4 : ~IsNumber(counts[i])
        \/ \E i \in 1..3 : ~IsNumber(geometry[i])
        \/ ~IsNumber(Split(fields[7], "-")[1])

\* A line with all its parts whose memory field or cores-per-node field has
\* something else than a number before its first "+".
HasNonNumericMemoryOrCores(line) ==
  LET fields == Split(line, "|")
  IN /\ HasAllParts(line)
     /\ ~(IsNumber(BeforePlus(fields[10])) /\ IsNumber(BeforePlus(fields[5])))

\* The loop of parsePartitionsInformation is about to handle a line.
AtPartitionLine ==
  pc = "parsing" /\ lineNumber < Len(partitionsInformationLines)

\* C12 as stated: the step of parsePartitionsInformation on a line with a
\* non-numeric node count, processor count, geometry part, job-size bound,
\* cores-per-node or memory field ends the run with a fatal error, and no
\* mapping is returned.
C12_NonNumericFieldIsFatal ==
  [][(AtPartitionLine /\ HasNonNumericField(CurrentPartitionLine))
     => (pc' = "fatal" /\ inventoryMap' = EmptyMap)]_vars

\* C12 amended: the step of parsePartitionsInformation on a line with all
\* its parts ends the run with a fatal error, the mapping never returned,
\* exactly when the memory field or the cores-per-node field is not a number
\* before its first "+", also after earlier lines were parsed; the node
\* count, processor counts, geometry and job-size bounds are copied as text
\* and never make the step fail.
C12_NonNumericMemoryOrCoresIsFatal ==
  [][(AtPartitionLine /\ HasAllParts(CurrentPartitionLine))
     => /\ HasNonNumericMemoryOrCores(CurrentPartitionLine)
             => /\ pc' = "fatal"
                /\ partitionsMap' = partitionsMap
                /\ inventoryMap' = EmptyMap
        /\ ~HasNonNumericMemoryOrCores(CurrentPartitionLine)
             => /\ pc' \in {"parsing", "panic"}
                /\ pc' = "parsing" =>
                     LET fields == Split(CurrentPartitionLine, "|")
                     IN /\ fields[1] \in DOMAIN partitionsMap'
                        /\ partitionsMap'[fields[1]].totalNodes = fields[3]]_vars

\* C12 witness: after one line was parsed into a record, a line with the
\* memory field n/a ended the run; the mapping was not returned.
C12_Witness ==
  /\ pc = "fatal"
  /\ lineNumber = 1
  /\ Len(partitionsInformationLines) = 2
  /\ partitionsInformationLines[2] = LineBadMemory
  /\ DOMAIN partitionsMap # {}
  /\ inventoryMap = EmptyMap
  /\ ~Started("SnapshotReader")

\* The last line after the header whose first field is name.
LastLineNamed(name) ==
  LET named == {i \in 1..Len(InventoryBody) :
                  FirstField(InventoryBody[i]) = name}
  IN InventoryBody[CHOOSE i \in named : \A j \in named : j <= i]

\* Every field of the record is the one a well-formed line gives it.
RecordComesFrom(record, line) ==
  LET fields == Split(line, "|")
      counts == Split(fields[6], "/")
      limits == Split(fields[7], "-")
      geometry == Split(fields[8], ":")
  IN /\ record.name = fields[1]
     /\ record.state = fields[2]
     /\ record.totalNodes = fields[3]
     /\ record.maximumCoresPerJob = fields[4]
     /\ record.totalCoresPerNode = fields[5]
     /\ record.allocatedProcessors = counts[1]
     /\ record.idleProcessors = counts[2]
     /\ record.otherProcessors = counts[3]
     /\ record.totalProcessors = counts[4]
     /\ record.minimumNodesPerJob = limits[1]
     /\ record.maximumNodesPerJob = limits[2]
     /\ record.socketsPerNode = geometry[1]
     /\ record.coresPerSocket = geometry[2]
     /\ record.threadsPerCore = geometry[3]
     /\ record.maximumTimePerJob = fields[9]
     /\ record.totalMemoryPerNode = fields[10]
     /\ record.totalMemoryPerCore =
          DecimalValue(WithoutPlus(fields[10]))
            \div DecimalValue(WithoutPlus(fields[5]))

\* C13: on a well-formed inventory, lines sharing a name included, every
\* step of parsePartitionsInformation succeeds, and the mapping it returns
\* holds under each name one record whose fields all are those of the last
\* line with that name.
C13_LastLineWins ==
  [][(pc = "parsing" /\ WellFormedInventory)
     => /\ pc' \in {"parsing", "parsed"}
        /\ pc' = "parsed" =>
             /\ DOMAIN inventoryMap' = InventoryNames
             /\ \A name \in InventoryNames :
                  RecordComesFrom(inventoryMap'[name], LastLineNamed(name))]_vars

\* C13 witness: two well-formed lines named gpu that differ in state, node
\* count and memory were parsed into one record.
C13_Witness ==
  /\ pc = "parsed"
  /\ InventoryBody = <<LineGpu, LineGpuMemPlus>>
  /\ DOMAIN inventoryMap = {FirstField(LineGpu)}
  /\ inventoryMap[FirstField(LineGpu)].state
       = Split(LineGpuMemPlus, "|")[2]

\* The job-size bounds of a line: the parts of its seventh field around "-".
JobSizeBounds(line) == Split(Split(line, "|")[7], "-")

\* The record stored by the step now taken on the current line.
StoredRecord == partitionsMap'[FirstField(CurrentPartitionLine)]

\* C14 as stated: the step of parsePartitionsInformation on a well-formed
\* line stores the minimum and the maximum of the job size, and a maximum
\* that is not a number is stored as a sentinel, never as the input's text.
C14_UnboundedMaximumIsSentinel ==
  [][AtWellFormedLine =>
       /\ StoredRecord.minimumNodesPerJob = JobSizeBounds(CurrentPartitionLine)[1]
       /\ IsNumber(JobSizeBounds(CurrentPartitionLine)[2])
            => StoredRecord.maximumNodesPerJob
                 = JobSizeBounds(CurrentPartitionLine)[2]
       /\ ~IsNumber(JobSizeBounds(CurrentPartitionLine)[2])
            => StoredRecord.maximumNodesPerJob
                 # JobSizeBounds(CurrentPartitionLine)[2]]_vars

\* C14 amended: the step of parsePartitionsInformation on a well-formed line
\* stores the minimum and the maximum of the job size as the texts before
\* and after the "-", a maximum such as infinite included: the text of the
\* input is kept and no sentinel takes its place.
C14_BoundsAreStoredAsText ==
  [][AtWellFormedLine =>
       /\ pc' = "parsing"
       /\ StoredRecord.minimumNodesPerJob = JobSizeBounds(CurrentPartitionLine)[1]
       /\ StoredRecord.maximumNodesPerJob = JobSizeBounds(CurrentPartitionLine)[2]]_vars

\* C14 witness: the line with the job-size bounds 1-infinite was parsed; the
\* record named cpu holds the minimum 1 and the maximum infinite.
C14_Witness ==
  /\ pc = "parsed"
  /\ InventoryBody = <<LineCpuBothPlus>>
  /\ DOMAIN inventoryMap = {FirstField(LineCpuBothPlus)}
  /\ inventoryMap[FirstField(LineCpuBothPlus)].minimumNodesPerJob = <<"1">>
  /\ inventoryMap[FirstField(LineCpuBothPlus)].maximumNodesPerJob
       = <<"i", "n", "f", "i", "n", "i", "t", "e">>

\* A record with its four job counters set to 0.
WithoutCounters(record) ==
  [record EXCEPT !.totalJobsCount = 0, !.runningJobsCount = 0,
                 !.waitingJobsCount = 0, !.resourceWaitingJobsCount = 0]

\* C15: every step of parseQueueStateFile, from the reading of the file to
\* the end of its loop, leaves the mapping with the keys
\* parsePartitionsInformation returned and every record with the name, state,
\* processor counts, nodes, geometry, memory, job-size bounds and time limit
\* it was returned with.
C15_MergerChangesOnlyCounters ==
  [][(pc \in {"parsed", "merging"})
     => /\ DOMAIN partitionsMap' = DOMAIN inventoryMap
        /\ \A name \in DOMAIN inventoryMap :
             WithoutCounters(partitionsMap'[name])
               = WithoutCounters(inventoryMap[name])]_vars

\* C15 witness: the loop ended after a line of a partition of the mapping,
\* which was counted, and a line of a partition absent from it.
C15_Witness ==
  /\ pc = "merged"
  /\ \E name \in DOMAIN partitionsMap : partitionsMap[name].totalJobsCount > 0
  /\ \E i \in 1..Len(queueStateToParseLines) :
       FirstField(queueStateToParseLines[i]) \notin DOMAIN inventoryMap
  /\ DOMAIN partitionsMap = DOMAIN inventoryMap

\* The job lines the loop of parseQueueStateFile has handled whose first
\* field is the name p and whose state is neither RUNNING nor PENDING.
SeenInOtherStates(p) ==
  {i \in 1..queueLineNumber :
     /\ FirstField(queueStateToParseLines[i]) = p
     /\ Split(queueStateToParseLines[i], "|")[2]
          \notin {StateRunning, StatePending}}

StageOrder ==
  <<"InventoryCollector", "InventoryParser", "SnapshotReader", "QueueMerger",
    "PartitionFilter", "Presenter">>

\* The place main is at when the stages up to the n-th have completed
\* without a failure (the reader and the merger are one call of main).
CompletedThrough(n) ==
  CASE n = 0 -> pc = "main"
    [] n = 1 -> pc = "collected"
    [] n = 2 -> pc = "parsed"
    [] n = 3 -> pc = "parsed"
    [] n = 4 -> pc = "merged"
    [] n = 5 -> pc = "filtered"
    [] OTHER -> FALSE

\* The run has ended: the process exited on a fatal error or a run-time
\* panic, or main returned after the presentation.
RunEnded == pc \in {"fatal", "panic", "done"}

\* The place of main as a number that grows along the pipeline; the three
\* ways a run ends come last.
Place ==
  CASE pc = "main" -> 0
    [] pc = "collected" -> 1
    [] pc = "parsing" -> 2
    [] pc = "parsed" -> 3
    [] pc = "merging" -> 4
    [] pc = "merged" -> 5
    [] pc = "filtered" -> 6
    [] OTHER -> 7

\* Some step of main can be taken: main is at a call, or in one of the two
\* loops with its index within the lines.
CanStep ==
  \/ pc \in {"main", "collected", "parsed", "merged", "filtered"}
  \/ pc = "parsing" /\ lineNumber <= Len(partitionsInformationLines)
  \/ pc = "merging" /\ queueLineNumber <= Len(queueStateToParseLines)

\* C17: in every run the stages started are a beginning of the fixed order,
\* so each is started at most once and in its place; a stage is started only
\* from the place where the stage before it completed without a failure, and
\* nothing is started or changed after an abort; every step moves main
\* forward or consumes a line of a loop, and a run that cannot step has
\* ended, either aborted (fatal error or run-time panic) with no
\* presentation, or with the six stages run and presentInformation called
\* exactly once.
C17_StagesInFixedOrderOnce ==
  /\ [](stages = SubSeq(StageOrder, 1, Len(stages)))
  /\ [][/\ ~RunEnded
        /\ stages' # stages =>
             /\ CompletedThrough(Len(stages))
             /\ \E n \in 1..2 :
                  stages' = SubSeq(StageOrder, 1, Len(stages) + n)
        /\ \/ Place' > Place
           \/ /\ pc' = "parsing" /\ pc = "parsing"
              /\ lineNumber' = lineNumber + 1
           \/ /\ pc' = "merging" /\ pc = "merging"
              /\ queueLineNumber' = queueLineNumber + 1]_vars
  /\ [](RunEnded \/ CanStep)
  /\ [](RunEnded =>
          \/ pc \in {"fatal", "panic"} /\ presentCalls = <<>>
          \/ pc = "done" /\ Len(presentCalls) = 1 /\ stages = StageOrder)

\* C17 witness: a run went through the six stages and presented once.
C17_Witness ==
  /\ pc = "done"
  /\ stages = StageOrder
  /\ Len(presentCalls) = 1
  /\ queueLineNumber = 2
  /\ lineNumber = 2

\* The outcome of the other order: removeIgnoredQueues applied to the mapping
\* parsePartitionsInformation returned, then the loop of parseQueueStateFile
\* over the job lines of the snapshot.
FilterThenMerge(ignored) ==
  LET filtered == deleteIgnored(inventoryMap, ignored)
  IN mergeLines(filtered, DOMAIN filtered, queueStateToParseLines)

HasZeroCores(line) ==
  LET fields == Split(line, "|")
  IN /\ HasAllParts(line)
     /\ IsNumber(BeforePlus(fields[10]))
     /\ IsNumber(BeforePlus(fields[5]))
     /\ DecimalValue(BeforePlus(fields[5])) = 0

\* C19: the step of parsePartitionsInformation on a line whose cores-per-node
\* number is 0 aborts the run at the division: the mapping is not returned,
\* no record is stored for the line, no stage is started by the step, and no
\* step follows the abort, so none of the later stages runs.
C19_ZeroCoresAborts ==
  [][/\ pc # "panic"
     /\ (AtPartitionLine /\ HasZeroCores(CurrentPartitionLine))
          => /\ pc' = "panic"
             /\ partitionsMap' = partitionsMap
             /\ inventoryMap' = EmptyMap
             /\ stages' = <<"InventoryCollector", "InventoryParser">>
             /\ presentCalls' = <<>>]_vars

\* C19 witness: after one line was parsed into a record, the line with 0
\* cores per node ended the run inside parsePartitionsInformation.
C19_Witness ==
  /\ pc = "panic"
  /\ lineNumber = 1
  /\ Len(partitionsInformationLines) = 2
  /\ partitionsInformationLines[2] = LineZeroCores
  /\ Cardinality(DOMAIN partitionsMap) = 1
  /\ FirstField(LineZeroCores) \notin DOMAIN partitionsMap
  /\ inventoryMap = EmptyMap
  /\ stages = <<"InventoryCollector", "InventoryParser">>

\* The loop of parseQueueStateFile is about to handle a line with fewer than
\* three fields.
AtShortJobLine ==
  /\ pc = "merging"
  /\ queueLineNumber < Len(queueStateToParseLines)
  /\ Len(Split(CurrentJobLine, "|")) < 3

\* C20: the step of the loop of parseQueueStateFile on a line with fewer
\* than three fields, the empty line included, skips the line with the
\* mapping unchanged when its first field is not a key of the mapping, and
\* otherwise aborts the run with the mapping unchanged, no counter
\* incremented for the line, and nothing presented then or later.
C20_ShortLineSkippedOrAborts ==
  [][/\ (AtShortJobLine /\ FirstField(CurrentJobLine) \notin DOMAIN partitionsMap)
          => /\ pc' = "merging"
             /\ queueLineNumber' = queueLineNumber + 1
             /\ partitionsMap' = partitionsMap
     /\ (AtShortJobLine /\ FirstField(CurrentJobLine) \in DOMAIN partitionsMap)
          => /\ pc' = "panic"
             /\ partitionsMap' = partitionsMap
             /\ presentCalls' = <<>>
     /\ (pc = "panic" /\ Started("QueueMerger")) => FALSE]_vars

\* C20 witness: the loop skipped an empty line and then aborted on a
\* one-field line of a partition of the mapping, nothing counted or presented.
C20_Witness ==
  /\ pc = "panic"
  /\ Started("QueueMerger")
  /\ queueLineNumber = 1
  /\ Len(queueStateToParseLines) = 2
  /\ queueStateToParseLines[1] = JobEmpty
  /\ queueStateToParseLines[2] = JobShort
  /\ FirstField(JobShort) \in DOMAIN partitionsMap
  /\ partitionsMap = inventoryMap
  /\ presentCalls = <<>>

=============================================================================
